---- MODULE Spec2Model ----
(***************************************************************************)
(* A model of the `blessed` golden-file test engine                        *)
(* (blessed-macros/src/lib.rs, blessed/src/lib.rs).                        *)
(*                                                                         *)
(* Three specifications share the definitions below:                       *)
(*   SpecClassify  the tail of a generated test body: the result of the    *)
(*                 `git status` query is classified into pass / fail;      *)
(*   SpecGen       one expansion of the `tests!` macro over the glob       *)
(*                 entries of a crate;                                     *)
(*   SpecRun       the generated test functions, run concurrently by the   *)
(*                 test runner against a shared work tree, twice, with     *)
(*                 git add / commit and hand edits between the runs.       *)
(*                                                                         *)
(* Text is a sequence of one-character strings; a path is a sequence of    *)
(* components, each component a text.                                      *)
(***************************************************************************)
EXTENDS Naturals, Sequences, FiniteSets, TLC

VARIABLES
    \* ---- SpecClassify: the value returned by run_git_status and the verdict
    cls_pc,           \* "query" | "done"
    cls_result,       \* Result<String, String> returned by run_git_status
    cls_outcome,      \* outcome of the match on it (lib.rs:244-267)
    \* ---- SpecGen: one expansion of tests!()
    env,              \* what the macro finds around it (args, manifest dir, git)
    entries,          \* what glob::glob yields, in its (sorted) order
    gen_pc,           \* "setup" | "loop" | "returned"
    next_entry,       \* index of the next glob entry to process
    found_files,      \* lib.rs:118
    generated_tests,  \* lib.rs:76
    macro_out,        \* the TokenStream returned by the macro
    \* ---- SpecRun: the generated #[test] functions at run time
    registry,         \* inventory of HarnessFn, frozen before the tests run
    units,            \* the generated test functions
    pc,               \* per unit: position in the test body
    output_json,      \* per unit: local `output_json`
    status_result,    \* per unit: what run_git_status returned
    outcome,          \* per unit: running / passed / panicked with a message
    fs,               \* work tree: absolute path -> content
    index,            \* git index: repo-relative path -> content
    head,             \* git HEAD commit: repo-relative path -> content
    run,              \* number of the current `cargo test` run
    observed,         \* per unit: work-tree content at the instant of its status query
    idem              \* per unit: the artifact this unit wrote in the previous run was
                      \* on disk unchanged and committed when this run started, and
                      \* nobody has staged, committed or edited anything since

cls_vars == <<cls_pc, cls_result, cls_outcome>>
gen_vars == <<env, entries, gen_pc, next_entry, found_files, generated_tests, macro_out>>
run_vars == <<registry, units, pc, output_json, status_result, outcome,
              fs, index, head, run, observed, idem>>
vars == <<cls_vars, gen_vars, run_vars>>

----------------------------------------------------------------------------
(* Bounds *)

MaxStatusLen == 4
MaxFiles == 2
MaxRuns == 2

----------------------------------------------------------------------------
(* Text helpers *)

None == <<"none">>

SeqsUpTo(S, n) == UNION {[1..k -> S] : k \in 0..n}

\* str::starts_with
StartsWith(s, p) == Len(s) >= Len(p) /\ SubSeq(s, 1, Len(p)) = p

Ok(v) == [ok |-> TRUE, val |-> v]
Err(e) == [ok |-> FALSE, val |-> e]

----------------------------------------------------------------------------
(* Golden verification: the match on run_git_status (lib.rs:244-267)       *)

StatusChars == {"?", " ", "M", "A", "R", "p"}
StatusTexts == SeqsUpTo(StatusChars, MaxStatusLen)
StatusErrors == {<<"git status failed">>, <<"Failed to execute git status">>}

Running == [verdict |-> "running", kind |-> "none", detail |-> None]
Pass == [verdict |-> "pass", kind |-> "StagedNewOrClean", detail |-> None]
Panic(kind, detail) == [verdict |-> "fail", kind |-> kind, detail |-> detail]

\* A plausible slip: the staged check accepts any text whose first column is A.
StatusOutcomeFirstColumnA(result) ==
    IF ~result.ok THEN Panic("StatusError", result.val)
    ELSE LET status_output == result.val IN
         IF StartsWith(status_output, <<"?", "?", " ">>)
           THEN Panic("Untracked", None)
         ELSE IF StartsWith(status_output, <<"A">>) \/ status_output = <<>>
           THEN Pass
         ELSE IF StartsWith(status_output, <<" ", "M", " ">>)
                 \/ StartsWith(status_output, <<"A", "M", " ">>)
           THEN Panic("ModifiedUnstaged", None)
         ELSE Panic("Unexpected", status_output)

\* A plausible slip: the modified check drops the "AM " alternative.
StatusOutcomeNoAM(result) ==
    IF ~result.ok THEN Panic("StatusError", result.val)
    ELSE LET status_output == result.val IN
         IF StartsWith(status_output, <<"?", "?", " ">>)
           THEN Panic("Untracked", None)
         ELSE IF StartsWith(status_output, <<" ", "M", " ">>)
           THEN Panic("ModifiedUnstaged", None)
         ELSE IF StartsWith(status_output, <<"A", " ">>) \/ status_output = <<>>
           THEN Pass
         ELSE Panic("Unexpected", status_output)

\* A plausible slip: an empty status (clean) is not accepted.
StatusOutcomeNoEmpty(result) ==
    IF ~result.ok THEN Panic("StatusError", result.val)
    ELSE LET status_output == result.val IN
         IF StartsWith(status_output, <<"?", "?", " ">>)
           THEN Panic("Untracked", None)
         ELSE IF StartsWith(status_output, <<" ", "M", " ">>)
                 \/ StartsWith(status_output, <<"A", "M", " ">>)
           THEN Panic("ModifiedUnstaged", None)
         ELSE IF StartsWith(status_output, <<"A", " ">>)
           THEN Pass
         ELSE Panic("Unexpected", status_output)

StatusOutcome(result) ==
    IF ~result.ok THEN Panic("StatusError", result.val)
    ELSE LET status_output == result.val IN
         IF StartsWith(status_output, <<"?", "?", " ">>)
           THEN Panic("Untracked", None)
         ELSE IF StartsWith(status_output, <<" ", "M", " ">>)
                 \/ StartsWith(status_output, <<"A", "M", " ">>)
           THEN Panic("ModifiedUnstaged", None)
         ELSE IF StartsWith(status_output, <<"A", " ">>) \/ status_output = <<>>
           THEN Pass
         ELSE Panic("Unexpected", status_output)

----------------------------------------------------------------------------
(* Test generation: the tests! macro (lib.rs:67-306)                       *)

\* Paths.  `git rev-parse --show-toplevel` answers GitRoot; the manifest
\* directory is the root itself, a crate below it, or a path that reaches the
\* crate through a symbolic link, which git resolves and cargo does not.
GitRoot == << <<"repo">> >>
ManifestDirs == {GitRoot, GitRoot \o << <<"crate">> >>, << <<"link">> >>}

\* What the macro finds: `fault` is the first setup step that fails.
SetupFaults == {"args", "no_manifest_dir", "git_failed", "git_exec_err",
                "root_not_utf8", "glob_pattern"}
Envs == {[fault |-> "none", manifest_dir |-> m] : m \in ManifestDirs}
        \cup {[fault |-> f, manifest_dir |-> GitRoot] : f \in SetupFaults}

\* Path::strip_prefix, component by component
StripPrefix(p, base) ==
    IF StartsWith(p, base) THEN Ok(SubSeq(p, Len(base) + 1, Len(p)))
    ELSE Err(None)

\* char::is_alphanumeric on the characters the model uses
IsAlphanumeric(c) == c \in {"a", "b", "x", "y", "blessed"}
\* proc_macro2::Ident::new panics unless every character may continue an identifier
IsIdentContinue(c) == IsAlphanumeric(c) \/ c \in {"_", "blessed_test_"}
ValidIdent(text) == \A i \in DOMAIN text : IsIdentContinue(text[i])

\* stem.replace(|c| !c.is_alphanumeric(), "_")  (lib.rs:129)
Sanitize(stem) == [i \in DOMAIN stem |-> IF IsAlphanumeric(stem[i]) THEN stem[i] ELSE "_"]

\* Fixture files.  The i-th glob entry is src/<dir i>/<FileStems[i]>.json; the first
\* and the third share their file name.
FileStems == << <<"x", ".", "blessed">>, <<"x", "-", "y", ".", "blessed">>,
                <<"x", ".", "blessed">> >>
FileStemOf(i) == FileStems[((i - 1) % Len(FileStems)) + 1]

CaseNames == {<<"a">>, <<"b">>, <<"a", "-">>}
GenDefs == {[harness |-> "parse_compile_match", params |-> "p1"],
            [harness |-> "no_such_harness", params |-> "p2"]}
CaseMaps(defs) == UNION {[S -> defs] : S \in SUBSET CaseNames}
NoCases == [n \in {} |-> None]

\* One glob entry: an error entry, a directory, or a file whose stem is not
\* UTF-8, that cannot be read, that is not a JSON map of definitions, or that is.
EntryChoices(i, defs) ==
    {[kind |-> k, path |-> i, read |-> "ok", cases |-> NoCases] : k \in {"glob_err", "dir"}}
    \cup {[kind |-> "file", path |-> i, read |-> r, cases |-> NoCases] :
             r \in {"bad_stem", "unreadable", "malformed"}}
    \cup {[kind |-> "file", path |-> i, read |-> "ok", cases |-> c] : c \in CaseMaps(defs)}
EntrySeqs(n, defs) ==
    UNION {{es \in [1..k -> UNION {EntryChoices(i, defs) : i \in 1..k}] :
               \A i \in 1..k : es[i].path = i} : k \in 0..n}

Orders(S) == {o \in [1..Cardinality(S) -> S] : \A i, j \in DOMAIN o : i # j => o[i] # o[j]}

NoError == [what |-> "none", file |-> 0]
CompileError(what, file) ==
    [kind |-> "compile_error", tests |-> <<>>, error |-> [what |-> what, file |-> file]]
MacroPanic(what, file) ==
    [kind |-> "macro_panic", tests |-> <<>>, error |-> [what |-> what, file |-> file]]
Pending == [kind |-> "pending", tests |-> <<>>, error |-> NoError]

\* lib.rs:83
OutputDirAbs(manifest_dir) == manifest_dir \o << <<"blessed">> >>

\* A plausible slip: the artifact is scoped by the fixture file's stem.
OutputFilePathAbsByStem(manifest_dir, file_stem, test_name) ==
    OutputDirAbs(manifest_dir) \o <<file_stem \o <<"_">> \o test_name \o <<".json">>>>

\* lib.rs:154  output_dir_abs.join(format!("{}.json", test_name))
OutputFilePathAbs(manifest_dir, file_stem, test_name) ==
    OutputDirAbs(manifest_dir) \o <<test_name \o <<".json">>>>

\* lib.rs:150
TestFnName(file_stem, test_name) == <<"blessed_test_">> \o file_stem \o <<"_">> \o test_name

\* The body of `for (test_name, definition) in cases` (lib.rs:148-269), for one case.
\* `src` records the fixture file the case came from; the generated code does
\* not carry it.
GenerateTest(e, file_stem, test_name, manifest_dir) ==
    LET definition == e.cases[test_name]
        abs == OutputFilePathAbs(manifest_dir, file_stem, test_name)
        rel == StripPrefix(abs, GitRoot)
    IN  IF ~ValidIdent(TestFnName(file_stem, test_name))
          THEN [ok |-> FALSE, out |-> MacroPanic("invalid_ident", e.path)]
        ELSE IF ~rel.ok
          THEN [ok |-> FALSE, out |-> CompileError("not_inside_git_root", e.path)]
        ELSE [ok |-> TRUE,
              test |-> [test_fn_name |-> TestFnName(file_stem, test_name),
                        test_name |-> test_name,
                        harness_name |-> definition.harness,
                        params_json_str |-> definition.params,
                        output_file_path_abs |-> abs,
                        output_file_path_rel |-> rel.val,
                        src |-> e.path]]

\* The inner loop over the cases of one file, in HashMap iteration order `order`.
RECURSIVE GenerateCases(_, _, _, _, _)
GenerateCases(e, file_stem, order, manifest_dir, acc) ==
    IF order = <<>> THEN [ok |-> TRUE, tests |-> acc]
    ELSE LET g == GenerateTest(e, file_stem, Head(order), manifest_dir)
         IN  IF ~g.ok THEN g
             ELSE GenerateCases(e, file_stem, Tail(order), manifest_dir,
                                Append(acc, g.test))

\* A plausible slip: a file that fails to parse is skipped like a glob error.
ProcessEntrySkipMalformed(e, order, manifest_dir, acc, found) ==
    IF e.kind = "glob_err" \/ e.kind = "dir" \/ e.read = "malformed"
      THEN [ok |-> TRUE, tests |-> acc, found |-> found]
    ELSE IF e.read = "bad_stem"
      THEN [ok |-> FALSE, out |-> CompileError("no_file_stem", e.path)]
    ELSE IF e.read = "unreadable"
      THEN [ok |-> FALSE, out |-> CompileError("read_failed", e.path)]
    ELSE LET g == GenerateCases(e, Sanitize(FileStemOf(e.path)), order, manifest_dir, acc)
         IN  IF g.ok THEN [ok |-> TRUE, tests |-> g.tests, found |-> TRUE] ELSE g

\* A plausible slip: only the first case of each file is turned into a test.
ProcessEntryFirstCaseOnly(e, order, manifest_dir, acc, found) ==
    IF e.kind = "glob_err" \/ e.kind = "dir"
      THEN [ok |-> TRUE, tests |-> acc, found |-> found]
    ELSE IF e.read = "bad_stem"
      THEN [ok |-> FALSE, out |-> CompileError("no_file_stem", e.path)]
    ELSE IF e.read = "unreadable"
      THEN [ok |-> FALSE, out |-> CompileError("read_failed", e.path)]
    ELSE IF e.read = "malformed"
      THEN [ok |-> FALSE, out |-> CompileError("parse_failed", e.path)]
    ELSE LET g == GenerateCases(e, Sanitize(FileStemOf(e.path)),
                                SubSeq(order, 1, IF Len(order) > 0 THEN 1 ELSE 0),
                                manifest_dir, acc)
         IN  IF g.ok THEN [ok |-> TRUE, tests |-> g.tests, found |-> TRUE] ELSE g

\* The body of `for entry in entries` (lib.rs:121-285), for one entry.
ProcessEntry(e, order, manifest_dir, acc, found) ==
    IF e.kind = "glob_err" \/ e.kind = "dir"
      THEN [ok |-> TRUE, tests |-> acc, found |-> found]
    ELSE IF e.read = "bad_stem"
      THEN [ok |-> FALSE, out |-> CompileError("no_file_stem", e.path)]
    ELSE IF e.read = "unreadable"
      THEN [ok |-> FALSE, out |-> CompileError("read_failed", e.path)]
    ELSE IF e.read = "malformed"
      THEN [ok |-> FALSE, out |-> CompileError("parse_failed", e.path)]
    ELSE LET g == GenerateCases(e, Sanitize(FileStemOf(e.path)), order, manifest_dir, acc)
         IN  IF g.ok THEN [ok |-> TRUE, tests |-> g.tests, found |-> TRUE] ELSE g

\* lib.rs:69-119: arguments, CARGO_MANIFEST_DIR, git root, glob pattern.
SetupOutcome(e) ==
    CASE e.fault = "args"            -> CompileError("no_arguments_expected", 0)
      [] e.fault = "no_manifest_dir" -> CompileError("manifest_dir_not_set", 0)
      [] e.fault = "git_failed"      -> CompileError("git_rev_parse_failed", 0)
      [] e.fault = "git_exec_err"    -> CompileError("git_not_executed", 0)
      [] e.fault = "root_not_utf8"   -> CompileError("git_root_not_utf8", 0)
      [] e.fault = "glob_pattern"    -> CompileError("glob_pattern", 0)
      [] OTHER                       -> Pending

\* lib.rs:294-305: what the macro returns once the loop is over.
FinalCode(tests, found) == [kind |-> "tests", tests |-> tests, error |-> NoError]

ClsIdle == cls_pc = "done" /\ cls_result = Ok(<<>>) /\ cls_outcome = Running
GenIdle ==
    /\ env = [fault |-> "none", manifest_dir |-> GitRoot]
    /\ entries = <<>> /\ gen_pc = "returned" /\ next_entry = 1
    /\ found_files = FALSE /\ generated_tests = <<>> /\ macro_out = Pending
NoUnit == [u \in {} |-> None]
RunIdle ==
    /\ registry = <<>> /\ units = <<>> /\ pc = NoUnit /\ output_json = NoUnit
    /\ status_result = NoUnit /\ outcome = NoUnit /\ observed = NoUnit /\ idem = NoUnit
    /\ fs = NoUnit /\ index = NoUnit /\ head = NoUnit /\ run = 0

GenInit ==
    /\ env \in Envs
    /\ entries = <<>>
    /\ gen_pc = "setup"
    /\ next_entry = 1
    /\ found_files = FALSE
    /\ generated_tests = <<>>
    /\ macro_out = Pending
    /\ ClsIdle /\ RunIdle

\* lib.rs:69-119; glob::glob yields `entries`
Setup ==
    /\ gen_pc = "setup"
    /\ IF SetupOutcome(env) # Pending
         THEN /\ gen_pc' = "returned"
              /\ macro_out' = SetupOutcome(env)
              /\ UNCHANGED entries
         ELSE /\ gen_pc' = "loop"
              /\ entries' \in EntrySeqs(MaxFiles, GenDefs)
              /\ UNCHANGED macro_out
    /\ UNCHANGED <<env, next_entry, found_files, generated_tests, cls_vars, run_vars>>

\* lib.rs:121-285, one iteration
LoopEntry ==
    /\ gen_pc = "loop"
    /\ next_entry <= Len(entries)
    /\ \E order \in Orders(DOMAIN entries[next_entry].cases) :
         LET r == ProcessEntry(entries[next_entry], order, env.manifest_dir,
                               generated_tests, found_files)
         IN  IF r.ok
               THEN /\ generated_tests' = r.tests
                    /\ found_files' = r.found
                    /\ next_entry' = next_entry + 1
                    /\ UNCHANGED <<gen_pc, macro_out>>
               ELSE /\ gen_pc' = "returned"
                    /\ macro_out' = r.out
                    /\ UNCHANGED <<generated_tests, found_files, next_entry>>
    /\ UNCHANGED <<env, entries, cls_vars, run_vars>>

\* lib.rs:294-305
Finish ==
    /\ gen_pc = "loop"
    /\ next_entry > Len(entries)
    /\ gen_pc' = "returned"
    /\ macro_out' = FinalCode(generated_tests, found_files)
    /\ UNCHANGED <<env, entries, next_entry, found_files, generated_tests,
                   cls_vars, run_vars>>

GenNext == Setup \/ LoopEntry \/ Finish
SpecGen == GenInit /\ [][GenNext]_vars

----------------------------------------------------------------------------
(* Run time: the harness adapter (lib.rs:46-54), the registry               *)
(* (blessed/src/lib.rs:9-14) and the generated test body (lib.rs:186-268)   *)

\* The whole loop of the macro over `es`, cases taken in the orders `orders`.
RECURSIVE GenerateAll(_, _, _, _, _, _)
GenerateAll(es, orders, k, manifest_dir, acc, found) ==
    IF k > Len(es) THEN FinalCode(acc, found)
    ELSE LET r == ProcessEntry(es[k], orders[k], manifest_dir, acc, found)
         IN  IF ~r.ok THEN r.out
             ELSE GenerateAll(es, orders, k + 1, manifest_dir, r.tests, r.found)

File(i, cases) == [kind |-> "file", path |-> i, read |-> "ok", cases |-> cases]
Def(h, p) == [harness |-> h, params |-> p]
A == <<"a">>
B == <<"b">>
\* The crates whose tests are run: fixture files with a case name shared by
\* two files, with distinct case names, with parameters the harness cannot
\* deserialize, with a harness that may not be registered.
RunFixtures ==
    { << File(1, (A :> Def("parse_compile_match", "p1"))),
         File(2, (A :> Def("parse_compile_match", "p2"))) >>,
      << File(1, (A :> Def("parse_compile_match", "p1")
                  @@ B :> Def("parse_compile_match", "bad"))) >>,
      << File(1, (A :> Def("other", "p1"))),
         File(2, (B :> Def("parse_compile_match", "p1"))) >>,
      << File(1, (A :> Def("parse_compile_match", "bad"))),
         File(2, (A :> Def("parse_compile_match", "bad"))) >>,
      << File(1, (A :> Def("other", "p2")
                  @@ B :> Def("no_such_harness", "p1"))) >> }

\* inventory::iter::<HarnessFn>: the names submitted by #[blessed::harness]
Registries == {<<"parse_compile_match">>, <<"other", "parse_compile_match">>}

\* The wrapper generated by #[harness] (lib.rs:46-54): deserialize, call, serialize.
\* Parameters "bad" do not have the shape of the harness input; harness
\* `other` answers "p2" with a value serde cannot serialize.
HarnessFunc(name, input_json) ==
    IF input_json = "bad" THEN Err(<<"Failed to deserialize input">>)
    ELSE IF name = "other" /\ input_json = "p2" THEN Err(<<"Failed to serialize output">>)
    ELSE Ok(<<name, input_json>>)

NotQueried == [ok |-> FALSE, val |-> <<"not queried">>]
NoFile == [wrap |-> "absent", body |-> <<>>]
Edited == [wrap |-> "edited", body |-> <<>>]

\* lib.rs:224-230: the text written to the artifact
OutputJson(result) ==
    IF result.ok THEN [wrap |-> "value", body |-> result.val]
    ELSE [wrap |-> "blessed_error", body |-> result.val]

\* A plausible slip: an Err from the harness fails the test.
AfterHarnessErrPanics(result) ==
    IF result.ok THEN [pc |-> "mkdir", output_json |-> OutputJson(result), outcome |-> Running]
    ELSE [pc |-> "done", output_json |-> NoFile, outcome |-> Panic("HarnessError", result.val)]

\* lib.rs:223-230: where the test body stands after running the harness
AfterHarness(result) ==
    [pc |-> "mkdir", output_json |-> OutputJson(result), outcome |-> Running]

\* lib.rs:209-211: position of the first entry with that name, 0 when none
FindHarness(reg, harness_name) ==
    IF \E i \in DOMAIN reg : reg[i] = harness_name
      THEN CHOOSE i \in DOMAIN reg :
             reg[i] = harness_name /\ \A j \in 1..(i - 1) : reg[j] # harness_name
      ELSE 0

\* A plausible slip: the message lists only the first registered name.
HarnessNotFoundFirstOnly(reg, harness_name) ==
    Panic("HarnessNotFound", <<harness_name>> \o SubSeq(reg, 1, 1))

\* lib.rs:214-216: the panic naming the harness and every registered name
HarnessNotFound(reg, harness_name) ==
    Panic("HarnessNotFound", <<harness_name>> \o reg)

\* A path as text: its components joined by "/"
RECURSIVE PathText(_)
PathText(path) ==
    IF path = <<>> THEN <<>>
    ELSE IF Len(path) = 1 THEN path[1]
    ELSE path[1] \o <<"/">> \o PathText(Tail(path))

\* lib.rs:194-206: what `git status --porcelain -- <path>` prints for one path,
\* from its content in the work tree (w), the index (i) and HEAD (h): nothing
\* when all agree, "?? path" when git does not know the path, else "XY path"
\* with X comparing index to HEAD and Y comparing work tree to index.
run_git_status(w, i, h, relative_path) ==
    IF i = NoFile /\ h = NoFile
      THEN IF w = NoFile THEN <<>> ELSE <<"?", "?", " ">> \o PathText(relative_path) \o <<"\n">>
    ELSE LET X == IF h = NoFile THEN "A" ELSE IF i = NoFile THEN "D"
                  ELSE IF i # h THEN "M" ELSE " "
             Y == IF i = NoFile THEN " " ELSE IF w = NoFile THEN "D"
                  ELSE IF w # i THEN "M" ELSE " "
         IN  IF X = " " /\ Y = " " THEN <<>>
             ELSE <<X, Y, " ">> \o PathText(relative_path) \o <<"\n">>

Units == DOMAIN units
AbsOf(u) == units[u].output_file_path_abs
RelOf(u) == units[u].output_file_path_rel
AllDone == \A u \in Units : pc[u] = "done"
\* the unit got as far as overwriting its artifact
Wrote(u) == pc[u] = "status" \/ (pc[u] = "done" /\ status_result[u] # NotQueried)

RunInit ==
    /\ registry \in Registries
    /\ \E es \in RunFixtures :
         \E orders \in [DOMAIN es -> UNION {Orders(DOMAIN es[k].cases) : k \in DOMAIN es}] :
            /\ \A k \in DOMAIN es : orders[k] \in Orders(DOMAIN es[k].cases)
            /\ units = GenerateAll(es, orders, 1, GitRoot \o << <<"crate">> >>,
                                   <<>>, FALSE).tests
    /\ pc = [u \in Units |-> "lookup"]
    /\ output_json = [u \in Units |-> NoFile]
    /\ status_result = [u \in Units |-> NotQueried]
    /\ outcome = [u \in Units |-> Running]
    /\ observed = [u \in Units |-> NoFile]
    /\ idem = [u \in Units |-> FALSE]
    /\ fs = [p \in {AbsOf(u) : u \in Units} |-> NoFile]
    /\ index = [p \in {RelOf(u) : u \in Units} |-> NoFile]
    /\ head = [p \in {RelOf(u) : u \in Units} |-> NoFile]
    /\ run = 1
    /\ ClsIdle /\ GenIdle

\* lib.rs:209-217
Lookup(u) ==
    /\ pc[u] = "lookup"
    /\ IF FindHarness(registry, units[u].harness_name) = 0
         THEN /\ pc' = [pc EXCEPT ![u] = "done"]
              /\ outcome' = [outcome EXCEPT
                               ![u] = HarnessNotFound(registry, units[u].harness_name)]
         ELSE /\ pc' = [pc EXCEPT ![u] = "invoke"]
              /\ UNCHANGED outcome
    /\ UNCHANGED <<registry, units, output_json, status_result, fs, index, head, run,
                   observed, idem, cls_vars, gen_vars>>

\* lib.rs:219-230
Invoke(u) ==
    /\ pc[u] = "invoke"
    /\ LET harness == registry[FindHarness(registry, units[u].harness_name)]
           after == AfterHarness(HarnessFunc(harness, units[u].params_json_str))
       IN  /\ pc' = [pc EXCEPT ![u] = after.pc]
           /\ output_json' = [output_json EXCEPT ![u] = after.output_json]
           /\ outcome' = [outcome EXCEPT ![u] = after.outcome]
    /\ UNCHANGED <<registry, units, status_result, fs, index, head, run,
                   observed, idem, cls_vars, gen_vars>>

\* lib.rs:233-238
CreateDir(u) ==
    /\ pc[u] = "mkdir"
    /\ \E io_ok \in BOOLEAN :
         IF io_ok
           THEN pc' = [pc EXCEPT ![u] = "write"] /\ UNCHANGED outcome
           ELSE /\ pc' = [pc EXCEPT ![u] = "done"]
                /\ outcome' = [outcome EXCEPT ![u] = Panic("CreateDirFailed", None)]
    /\ UNCHANGED <<registry, units, output_json, status_result, fs, index, head, run,
                   observed, idem, cls_vars, gen_vars>>

\* A plausible slip: a failed write is reported and the test goes on to the
\* status query.
WriteOutputIgnoresError(u) ==
    /\ pc[u] = "write"
    /\ \E io_ok \in BOOLEAN :
         IF io_ok
           THEN fs' = [fs EXCEPT ![AbsOf(u)] = output_json[u]]
           ELSE UNCHANGED fs
    /\ pc' = [pc EXCEPT ![u] = "status"]
    /\ UNCHANGED <<registry, units, output_json, status_result, outcome, index, head, run,
                   observed, idem, cls_vars, gen_vars>>

\* lib.rs:239-241.  The write is taken as one step: a reader sees the old
\* content or the new one.
WriteOutput(u) ==
    /\ pc[u] = "write"
    /\ \E io_ok \in BOOLEAN :
         IF io_ok
           THEN /\ fs' = [fs EXCEPT ![AbsOf(u)] = output_json[u]]
                /\ pc' = [pc EXCEPT ![u] = "status"]
                /\ UNCHANGED outcome
           ELSE /\ pc' = [pc EXCEPT ![u] = "done"]
                /\ outcome' = [outcome EXCEPT ![u] = Panic("WriteFailed", None)]
                /\ UNCHANGED fs
    /\ UNCHANGED <<registry, units, output_json, status_result, index, head, run,
                   observed, idem, cls_vars, gen_vars>>

\* lib.rs:244-267
CheckGitStatus(u) ==
    /\ pc[u] = "status"
    /\ \E result \in {Ok(run_git_status(fs[AbsOf(u)], index[RelOf(u)], head[RelOf(u)], RelOf(u))),
                      Err(<<"git status failed">>)} :
         /\ status_result' = [status_result EXCEPT ![u] = result]
         /\ outcome' = [outcome EXCEPT ![u] = StatusOutcome(result)]
    /\ observed' = [observed EXCEPT ![u] = fs[AbsOf(u)]]
    /\ pc' = [pc EXCEPT ![u] = "done"]
    /\ UNCHANGED <<registry, units, output_json, fs, index, head, run, idem,
                   cls_vars, gen_vars>>

\* Between two runs: the developer stages an artifact, ...
GitAdd(u) ==
    /\ AllDone /\ run < MaxRuns
    /\ fs[AbsOf(u)] # NoFile
    /\ index[RelOf(u)] # fs[AbsOf(u)]
    /\ index' = [index EXCEPT ![RelOf(u)] = fs[AbsOf(u)]]
    /\ idem' = [v \in Units |-> FALSE]
    /\ UNCHANGED <<registry, units, pc, output_json, status_result, outcome, fs, head,
                   run, observed, cls_vars, gen_vars>>

\* ... commits what is staged, ...
GitCommit ==
    /\ AllDone /\ run < MaxRuns
    /\ head # index
    /\ head' = index
    /\ idem' = [v \in Units |-> FALSE]
    /\ UNCHANGED <<registry, units, pc, output_json, status_result, outcome, fs, index,
                   run, observed, cls_vars, gen_vars>>

\* ... edits an artifact by hand, ...
HandEdit(u) ==
    /\ AllDone /\ run < MaxRuns
    /\ fs[AbsOf(u)] # Edited
    /\ fs' = [fs EXCEPT ![AbsOf(u)] = Edited]
    /\ idem' = [v \in Units |-> FALSE]
    /\ UNCHANGED <<registry, units, pc, output_json, status_result, outcome, index, head,
                   run, observed, cls_vars, gen_vars>>

\* ... and runs the tests again.
StartRun ==
    /\ AllDone /\ run < MaxRuns
    /\ run' = run + 1
    /\ idem' = [u \in Units |->
                  /\ Wrote(u)
                  /\ fs[AbsOf(u)] = output_json[u]
                  /\ index[RelOf(u)] = output_json[u]
                  /\ head[RelOf(u)] = output_json[u]]
    /\ pc' = [u \in Units |-> "lookup"]
    /\ output_json' = [u \in Units |-> NoFile]
    /\ status_result' = [u \in Units |-> NotQueried]
    /\ outcome' = [u \in Units |-> Running]
    /\ observed' = [u \in Units |-> NoFile]
    /\ UNCHANGED <<registry, units, fs, index, head, cls_vars, gen_vars>>

RunNext ==
    \/ \E u \in Units : Lookup(u)
    \/ \E u \in Units : Invoke(u)
    \/ \E u \in Units : CreateDir(u)
    \/ \E u \in Units : WriteOutput(u)
    \/ \E u \in Units : CheckGitStatus(u)
    \/ \E u \in Units : GitAdd(u)
    \/ GitCommit
    \/ \E u \in Units : HandEdit(u)
    \/ StartRun
SpecRun == RunInit /\ [][RunNext]_vars

----------------------------------------------------------------------------
(* SpecClassify *)

ClsInit ==
    /\ cls_pc = "query"
    /\ cls_result \in {Ok(t) : t \in StatusTexts} \cup {Err(e) : e \in StatusErrors}
    /\ cls_outcome = Running
    /\ GenIdle /\ RunIdle

\* lib.rs:244-267
CheckStatus ==
    /\ cls_pc = "query"
    /\ cls_pc' = "done"
    /\ cls_outcome' = StatusOutcome(cls_result)
    /\ UNCHANGED <<cls_result, gen_vars, run_vars>>

ClsNext == CheckStatus
SpecClassify == ClsInit /\ [][ClsNext]_vars

----------------------------------------------------------------------------
(* Properties of test generation (SpecGen) *)

Returned == gen_pc = "returned"
FileEntries == {i \in DOMAIN entries : entries[i].kind = "file"}
Malformed == {i \in FileEntries : entries[i].read = "malformed"}
AllFilesParse == \A i \in FileEntries : entries[i].read = "ok"
AllNamesIdent == \A i \in FileEntries : \A n \in DOMAIN entries[i].cases : ValidIdent(n)
OutputInsideRoot == StartsWith(OutputDirAbs(env.manifest_dir), GitRoot)

RECURSIVE CaseCount(_)
CaseCount(k) ==
    IF k = 0 THEN 0
    ELSE CaseCount(k - 1)
         + (IF entries[k].kind = "file" THEN Cardinality(DOMAIN entries[k].cases) ELSE 0)

UnitsOf(i, n) == {k \in DOMAIN macro_out.tests :
                     macro_out.tests[k].src = i /\ macro_out.tests[k].test_name = n}
OneUnitPerCase ==
    /\ macro_out.kind = "tests"
    /\ Len(macro_out.tests) = CaseCount(Len(entries))
    /\ \A i \in FileEntries : \A n \in DOMAIN entries[i].cases :
          Cardinality(UnitsOf(i, n)) = 1

\* C2: when discovery finds no fixture file, the macro returns exactly one
\* test unit (one that always fails).
C2_ZeroFixturesOneFailingUnit ==
    (Returned /\ env.fault = "none" /\ FileEntries = {}) =>
        (macro_out.kind = "tests" /\ Len(macro_out.tests) = 1)

C4_OutputPathFromNameOnly ==
    /\ \A k \in DOMAIN generated_tests :
          generated_tests[k].output_file_path_abs
            = OutputDirAbs(env.manifest_dir) \o <<generated_tests[k].test_name \o <<".json">>>>
    /\ \A j, k \in DOMAIN generated_tests :
          (generated_tests[j].test_name = generated_tests[k].test_name)
            <=> (generated_tests[j].output_file_path_abs
                   = generated_tests[k].output_file_path_abs)

C4_Witness ==
    \E j, k \in DOMAIN generated_tests :
        /\ generated_tests[j].src # generated_tests[k].src
        /\ generated_tests[j].test_name = generated_tests[k].test_name
        /\ generated_tests[j].output_file_path_abs = generated_tests[k].output_file_path_abs
        /\ \E l \in DOMAIN generated_tests :
              generated_tests[l].test_name # generated_tests[j].test_name

Aborted == macro_out.kind \in {"compile_error", "macro_panic"} /\ macro_out.tests = <<>>
FirstMalformed == CHOOSE i \in Malformed : \A j \in Malformed : i <= j
\* an entry the loop gets past without returning
PassedOver(i) ==
    \/ entries[i].kind # "file"
    \/ /\ entries[i].read = "ok"
       /\ \/ DOMAIN entries[i].cases = {}
          \/ (OutputInsideRoot /\ \A n \in DOMAIN entries[i].cases : ValidIdent(n))

----------------------------------------------------------------------------
(* Properties of the status classification (SpecClassify) *)

Classified == cls_pc = "done"
Text == cls_result.val
FirstColumn(c) == cls_result.ok /\ Len(Text) >= 1 /\ Text[1] = c
SecondColumn(c) == cls_result.ok /\ Len(Text) >= 2 /\ Text[2] = c
ThirdIsBlank == cls_result.ok /\ Len(Text) >= 3 /\ Text[3] = " "

\* The texts git itself prints for one path: nothing, or a line "XY path".
PorcelainCodes == {<<"?", "?">>, <<" ", "M">>, <<"M", " ">>, <<"M", "M">>,
                   <<"A", " ">>, <<"A", "M">>, <<"R", " ">>, <<"R", "M">>}
PorcelainText ==
    /\ cls_result.ok
    /\ \/ Text = <<>>
       \/ (Len(Text) > 3 /\ SubSeq(Text, 1, 2) \in PorcelainCodes /\ Text[3] = " ")

\* C1 as stated: for a text git prints, the unit passes exactly when the text
\* is empty or has A in its first code column.
C1_PassIffEmptyOrFirstColumnA ==
    (Classified /\ PorcelainText) =>
        ((cls_outcome.verdict = "pass") <=> (Text = <<>> \/ FirstColumn("A")))

\* C1 as amended: the unit passes exactly when the query succeeded and the
\* text is empty or begins with A followed by a blank second column ("A  path");
\* every other outcome fails: "?? " as Untracked, " M " and "AM " as
\* ModifiedUnstaged, any other non-empty text (A with another second column
\* included) as Unexpected with the raw text in the message, and a failed
\* query with the tool's error text.
C1_PassIffEmptyOrStagedAdded ==
    Classified =>
        /\ cls_outcome.verdict \in {"pass", "fail"}
        /\ (cls_outcome.verdict = "pass")
              <=> (cls_result.ok /\ (Text = <<>> \/ (FirstColumn("A") /\ SecondColumn(" "))))
        /\ ~cls_result.ok => cls_outcome = Panic("StatusError", cls_result.val)
        /\ (FirstColumn("?") /\ SecondColumn("?") /\ ThirdIsBlank)
              => cls_outcome = Panic("Untracked", None)
        /\ (FirstColumn(" ") /\ SecondColumn("M") /\ ThirdIsBlank)
              => cls_outcome = Panic("ModifiedUnstaged", None)
        /\ (cls_result.ok /\ cls_outcome.verdict = "fail"
              /\ cls_outcome.kind \notin {"Untracked", "ModifiedUnstaged"})
              => cls_outcome = Panic("Unexpected", Text)
        /\ (FirstColumn("R") \/ (FirstColumn("A") /\ ~SecondColumn(" ") /\ ~SecondColumn("M")))
              => cls_outcome = Panic("Unexpected", Text)

C1_Witness ==
    /\ Classified
    /\ cls_result = Ok(<<"A", " ", " ", "p">>)
    /\ cls_outcome = Pass

\* C10 as stated: a text git prints with M in its first code column, or with
\* code AM, is classified ModifiedUnstaged.
C10_FirstColumnMIsModified ==
    (Classified /\ PorcelainText
       /\ (FirstColumn("M") \/ (FirstColumn("A") /\ SecondColumn("M"))))
        => cls_outcome = Panic("ModifiedUnstaged", None)

\* C10 as amended: the texts classified ModifiedUnstaged are exactly those
\* that begin " M " (blank first column, M in the second) or "AM "; they fail
\* with the differs-from-the-index message.  A text with M in its first code
\* column ("M  path", "MM path") is classified Unexpected and fails too; none
\* of these passes.
C10_WorktreeModifiedIsModified ==
    Classified =>
        /\ (cls_outcome.kind = "ModifiedUnstaged")
              <=> /\ cls_result.ok
                  /\ FirstColumn(" ") \/ FirstColumn("A")
                  /\ SecondColumn("M")
                  /\ ThirdIsBlank
        /\ (cls_outcome.kind = "ModifiedUnstaged") => cls_outcome = Panic("ModifiedUnstaged", None)
        /\ FirstColumn("M") => cls_outcome = Panic("Unexpected", Text)

C10_Witness ==
    /\ Classified
    /\ cls_result = Ok(<<"A", "M", " ", "p">>)
    /\ cls_outcome = Panic("ModifiedUnstaged", None)

----------------------------------------------------------------------------
(* Properties of the generated tests at run time (SpecRun) *)

Registered(u) == FindHarness(registry, units[u].harness_name) # 0
HarnessResult(u) ==
    HarnessFunc(registry[FindHarness(registry, units[u].harness_name)],
                units[u].params_json_str)
HarnessErr(u) == Registered(u) /\ ~HarnessResult(u).ok
SharesPath(u, v) == u # v /\ AbsOf(u) = AbsOf(v)
PathShared(u) == \E v \in Units : SharesPath(u, v)
Queried(u) == pc[u] = "done" /\ status_result[u] # NotQueried
IoKinds == {"CreateDirFailed", "WriteFailed"}
StatusKinds == {"StatusError", "Untracked", "ModifiedUnstaged", "Unexpected"}

\* C6: a unit whose harness returns Err does not fail on that account: past
\* the harness call its artifact text is {"blessed_error": <message>}, that
\* text is what it writes, it goes on to the status query, and once the query
\* has answered, its verdict is the classification of the status alone (pass
\* on "" or "A ", fail otherwise), as for a unit whose harness returned Ok.
C6_HarnessErrIsArtifact ==
    \A u \in Units :
        HarnessErr(u) =>
            /\ pc[u] \in {"mkdir", "write", "status"} => outcome[u] = Running
            /\ (pc[u] \in {"mkdir", "write", "status"} \/ Wrote(u))
                  => output_json[u] = [wrap |-> "blessed_error", body |-> HarnessResult(u).val]
            /\ (pc[u] = "status" /\ ~PathShared(u)) => fs[AbsOf(u)] = output_json[u]
            /\ outcome[u].verdict = "fail" => outcome[u].kind \in IoKinds \cup StatusKinds
            /\ Queried(u) =>
                  /\ outcome[u] = StatusOutcome(status_result[u])
                  /\ \A v \in Units :
                        (Queried(v) /\ status_result[v] = status_result[u])
                            => outcome[v] = outcome[u]

C6_Witness ==
    \E u \in Units :
        /\ HarnessErr(u)
        /\ Queried(u)
        /\ outcome[u] = Pass
        /\ fs[AbsOf(u)] = [wrap |-> "blessed_error", body |-> <<"Failed to deserialize input">>]

\* C7: a unit whose harness name is not in the registry fails at the lookup,
\* and the failure message carries the missing name followed by every
\* registered name; a unit whose harness is registered never fails that way.
C7_UnknownHarnessListsRegistry ==
    \A u \in Units :
        /\ (~Registered(u) /\ pc[u] # "lookup") =>
              /\ pc[u] = "done"
              /\ outcome[u].verdict = "fail"
              /\ outcome[u].kind = "HarnessNotFound"
              /\ Head(outcome[u].detail) = units[u].harness_name
              /\ Tail(outcome[u].detail) = registry
              /\ \A i \in DOMAIN registry :
                    \E j \in DOMAIN outcome[u].detail : j > 1 /\ outcome[u].detail[j] = registry[i]
        /\ Registered(u) => outcome[u].kind # "HarnessNotFound"

C7_Witness ==
    \E u \in Units :
        /\ ~Registered(u)
        /\ Len(registry) >= 2
        /\ outcome[u] = Panic("HarnessNotFound", <<units[u].harness_name>> \o registry)

\* C8 as stated: when the artifact a unit wrote in the previous run was
\* committed and nothing edited it before this run, this run computes the same
\* bytes again and, once its status query has answered, it is classified
\* StagedNewOrClean and passes.
C8_SecondRunPasses ==
    \A u \in Units :
        idem[u] =>
            /\ pc[u] \notin {"lookup", "invoke"} => output_json[u] = head[RelOf(u)]
            /\ (Queried(u) /\ status_result[u].ok) => outcome[u] = Pass

\* C8 as amended: when the artifact a unit wrote in the previous run was
\* committed and nothing edited it before this run, this run computes the same
\* bytes again; if no other unit has the same output path and this run's
\* directory creation, write and status query succeed, the work tree holds
\* those bytes, the status is empty and the unit passes.
C8_SecondRunPassesAlone ==
    \A u \in Units :
        idem[u] =>
            /\ Registered(u)
            /\ pc[u] \notin {"lookup", "invoke"} =>
                  /\ output_json[u] = head[RelOf(u)]
                  /\ output_json[u] = index[RelOf(u)]
            /\ (pc[u] = "done" /\ ~PathShared(u) /\ outcome[u].kind \notin IoKinds
                  /\ status_result[u].ok) =>
                  /\ fs[AbsOf(u)] = head[RelOf(u)]
                  /\ status_result[u] = Ok(<<>>)
                  /\ outcome[u] = Pass

C8_Witness ==
    \E u \in Units :
        /\ run = 2 /\ idem[u] /\ ~PathShared(u)
        /\ Queried(u)
        /\ fs[AbsOf(u)] = head[RelOf(u)]
        /\ outcome[u] = Pass

\* C9: units with different case names have different output paths, units
\* with the same case name (from different fixture files) have the same one;
\* the content a unit's status query observes is its own artifact or the
\* artifact written in this run by a unit sharing its path; whatever was
\* observed, the unit's verdict is the classification of that status, and no
\* unit ever fails with an error about the collision.
C9_SharedPathRaceUndetected ==
    /\ \A u, v \in Units :
          /\ (units[u].test_name = units[v].test_name)
                <=> (AbsOf(u) = AbsOf(v))
          /\ (AbsOf(u) = AbsOf(v)) <=> (RelOf(u) = RelOf(v))
    /\ \A u \in Units :
          /\ outcome[u].verdict = "fail"
                => outcome[u].kind \in {"HarnessNotFound"} \cup IoKinds \cup StatusKinds
          /\ Queried(u) =>
                /\ outcome[u] = StatusOutcome(status_result[u])
                /\ \/ observed[u] = output_json[u]
                   \/ \E v \in Units :
                         SharesPath(u, v) /\ Wrote(v) /\ observed[u] = output_json[v]
          /\ (pc[u] = "status" /\ ~PathShared(u)) => fs[AbsOf(u)] = output_json[u]

\* a unit passes on the bytes of the other unit, not on its own
C9_Witness ==
    \E u, v \in Units :
        /\ SharesPath(u, v)
        /\ units[u].src # units[v].src
        /\ Queried(u) /\ Queried(v)
        /\ output_json[u] # output_json[v]
        /\ observed[u] = output_json[v]
        /\ outcome[u] = Pass

\* the final content of a shared path is the first unit's in one interleaving,
\* the second unit's in another
C9_FinalContentOfFirst ==
    \E u, v \in Units :
        /\ u < v /\ SharesPath(u, v) /\ Queried(u) /\ Queried(v)
        /\ output_json[u] # output_json[v] /\ fs[AbsOf(u)] = output_json[u]
C9_FinalContentOfSecond ==
    \E u, v \in Units :
        /\ u < v /\ SharesPath(u, v) /\ Queried(u) /\ Queried(v)
        /\ output_json[u] # output_json[v] /\ fs[AbsOf(u)] = output_json[v]
\* a unit fails on bytes it did not produce
C9_FailsOnForeignContent ==
    \E u, v \in Units :
        /\ SharesPath(u, v) /\ Queried(u)
        /\ observed[u] = output_json[v] /\ observed[u] # output_json[u]
        /\ outcome[u].kind = "ModifiedUnstaged"

----------------------------------------------------------------------------
(* Order of the steps inside one generated test (SpecRun) *)

EarlyKinds == {"HarnessNotFound"} \cup IoKinds

\* what holds of a unit at every instant
OrderedState(u) ==
    /\ pc[u] \in {"lookup", "invoke", "mkdir", "write", "status", "done"}
    /\ pc[u] \in {"lookup", "invoke", "mkdir", "write", "status"} =>
          (status_result[u] = NotQueried /\ outcome[u] = Running)
    /\ outcome[u].verdict = "pass" =>
          (pc[u] = "done" /\ status_result[u].ok /\ observed[u] # NoFile)
    /\ outcome[u].kind \in EarlyKinds =>
          (pc[u] = "done" /\ status_result[u] = NotQueried /\ observed[u] = NoFile)

\* what holds of every step a unit takes
OrderedStep(u) ==
    /\ pc'[u] # pc[u] =>
          \/ /\ pc[u] = "lookup" /\ pc'[u] = "invoke"
             /\ Registered(u) /\ fs' = fs
          \/ /\ pc[u] = "lookup" /\ pc'[u] = "done"
             /\ ~Registered(u) /\ outcome'[u].kind = "HarnessNotFound" /\ fs' = fs
          \/ /\ pc[u] = "invoke" /\ pc'[u] = "mkdir" /\ fs' = fs
          \/ /\ pc[u] = "mkdir" /\ pc'[u] = "write" /\ fs' = fs
          \/ /\ pc[u] = "mkdir" /\ pc'[u] = "done"
             /\ outcome'[u].kind = "CreateDirFailed" /\ fs' = fs
          \/ /\ pc[u] = "write" /\ pc'[u] = "status"
             /\ fs'[AbsOf(u)] = output_json[u]
          \/ /\ pc[u] = "write" /\ pc'[u] = "done"
             /\ outcome'[u].kind = "WriteFailed" /\ fs' = fs
          \/ /\ pc[u] = "status" /\ pc'[u] = "done"
             /\ status_result'[u] # NotQueried /\ fs' = fs
          \/ /\ pc[u] = "done" /\ pc'[u] = "lookup" /\ run' = run + 1 /\ fs' = fs
    /\ status_result'[u] \notin {status_result[u], NotQueried} => pc[u] = "status"
    /\ (fs'[AbsOf(u)] # fs[AbsOf(u)] /\ ~AllDone) =>
          \E v \in Units :
              /\ AbsOf(v) = AbsOf(u)
              /\ pc[v] = "write" /\ pc'[v] = "status"
              /\ outcome[v].kind # "HarnessNotFound"

\* C11: inside one unit the steps come in the order lookup, harness call,
\* directory creation, overwrite of the artifact, status query.  The status
\* is queried only from the position reached by a successful overwrite in this
\* run, so a unit that passes has written its artifact; a unit that fails at
\* the lookup, the directory creation or the write has no status answer; the
\* failing lookup step leaves the work tree as it was, and during a run a path
\* changes only by the write step of a unit that got past its lookup.
C11_StepsInOrder ==
    /\ [](\A u \in Units : OrderedState(u))
    /\ [][\A u \in Units : OrderedStep(u)]_vars

\* in the second run one unit fails at the lookup with the hand-edited artifact
\* still on disk, another passes on the artifact it has just written
C11_Witness ==
    \E u, v \in Units :
        /\ run = 2
        /\ outcome[u].kind = "HarnessNotFound" /\ status_result[u] = NotQueried
        /\ fs[AbsOf(u)] = Edited
        /\ outcome[v] = Pass /\ Queried(v)
        /\ fs[AbsOf(v)] = output_json[v]

====
